---- MODULE Spec2Model ----
(***************************************************************************)
(* Model of PyiGenerator (src/pyi_generator.py): the ast.NodeVisitor that  *)
(* builds one class model per visited class definition, expands it by the  *)
(* class decorators, and renders the models to .pyi text.                  *)
(*                                                                         *)
(* Text is a TLA+ string; ast nodes are records with a "kind" field named  *)
(* after the ast class; Python values are records tagged by their type.    *)
(***************************************************************************)
EXTENDS Integers, Sequences, FiniteSets, TLC

VARIABLES class_defs, imports, should_generate, node, result

vars == <<class_defs, imports, should_generate, node, result>>

(***************************************************************************)
(* Bounds of the model.                                                    *)
(***************************************************************************)
MaxClasses == 2
MaxFields == 2
MaxParams == 4
MaxPosonly == 2
MaxDepth == 2
MaxCalls == 2
MaxImports == 2

(***************************************************************************)
(* Python str operations used by the source.                               *)
(***************************************************************************)
startswith(s, p) == Len(s) >= Len(p) /\ SubSeq(s, 1, Len(p)) = p

endswith(s, p) == Len(s) >= Len(p) /\ SubSeq(s, Len(s) - Len(p) + 1, Len(s)) = p

\* s[n:]
SliceFrom(s, n) == SubSeq(s, n + 1, Len(s))

\* s[:-n]
SliceDropLast(s, n) == SubSeq(s, 1, Len(s) - n)

RECURSIVE join(_, _)
join(sep, xs) ==
    IF Len(xs) = 0 THEN ""
    ELSE IF Len(xs) = 1 THEN xs[1]
    ELSE xs[1] \o sep \o join(sep, Tail(xs))

\* ["None"] * n ; a negative n gives the empty list
Repeat(x, n) == [i \in 1..n |-> x]

(***************************************************************************)
(* Python values: the value of an ast.Constant and what _get_value_expr    *)
(* returns.                                                                *)
(***************************************************************************)
PyStr(s) == [ty |-> "str", s |-> s]
PyInt(i) == [ty |-> "int", i |-> i]
PyNone == [ty |-> "NoneType"]
PyEllipsis == [ty |-> "ellipsis"]

\* str(value), also the conversion of "{default}" in an f-string
str(v) ==
    CASE v.ty = "str" -> v.s
      [] v.ty = "int" -> ToString(v.i)
      [] v.ty = "NoneType" -> "None"
      [] v.ty = "ellipsis" -> "Ellipsis"

(***************************************************************************)
(* ast expression nodes.                                                   *)
(***************************************************************************)
Name(id) == [kind |-> "Name", id |-> id]
Constant(value) == [kind |-> "Constant", value |-> value]
Subscript(value, sl) == [kind |-> "Subscript", value |-> value, slice |-> sl]
Tuple(elts) == [kind |-> "Tuple", elts |-> elts]
List(elts) == [kind |-> "List", elts |-> elts]
BinOp(left, op, right) == [kind |-> "BinOp", left |-> left, op |-> op, right |-> right]
Attribute(value, attr) == [kind |-> "Attribute", value |-> value, attr |-> attr]
Call(func) == [kind |-> "Call", func |-> func]
\* Python None in place of a node: a missing annotation
NoNode == [kind |-> "None"]

\* the translation with the fallback case giving the text of a missing
\* annotation and the operands of a union swapped
RECURSIVE TranslateSwapped(_)
TranslateSwapped(annotation) ==
    CASE annotation.kind = "Name" -> annotation.id
      [] annotation.kind = "Constant" -> str(annotation.value)
      [] annotation.kind = "Subscript" ->
            TranslateSwapped(annotation.value) \o "["
                \o TranslateSwapped(annotation.slice) \o "]"
      [] annotation.kind = "Tuple" ->
            join(", ", [i \in 1..Len(annotation.elts) |->
                            TranslateSwapped(annotation.elts[i])])
      [] annotation.kind = "List" ->
            "[" \o join(", ", [i \in 1..Len(annotation.elts) |->
                                   TranslateSwapped(annotation.elts[i])]) \o "]"
      [] annotation.kind = "BinOp" /\ annotation.op = "BitOr" ->
            TranslateSwapped(annotation.right) \o " | "
                \o TranslateSwapped(annotation.left)
      [] annotation.kind = "Attribute" ->
            TranslateSwapped(annotation.value) \o "." \o annotation.attr
      [] OTHER -> "None"

\* PyiGenerator._get_type_annotation
RECURSIVE _get_type_annotation(_)
RECURSIVE TranslateAll(_)
TranslateAll(elts) ==
    IF Len(elts) = 0 THEN <<>>
    ELSE <<_get_type_annotation(Head(elts))>> \o TranslateAll(Tail(elts))

_get_type_annotation(annotation) ==
    CASE annotation.kind = "Name" -> annotation.id
      [] annotation.kind = "Constant" -> str(annotation.value)
      [] annotation.kind = "Subscript" ->
            _get_type_annotation(annotation.value) \o "["
                \o _get_type_annotation(annotation.slice) \o "]"
      [] annotation.kind = "Tuple" -> join(", ", TranslateAll(annotation.elts))
      [] annotation.kind = "List" ->
            "[" \o join(", ", TranslateAll(annotation.elts)) \o "]"
      [] annotation.kind = "BinOp" /\ annotation.op = "BitOr" ->
            _get_type_annotation(annotation.left) \o " | "
                \o _get_type_annotation(annotation.right)
      [] annotation.kind = "Attribute" ->
            _get_type_annotation(annotation.value) \o "." \o annotation.attr
      [] annotation.kind = "None" -> "None"
      [] OTHER -> ""

\* PyiGenerator._get_value_expr
_get_value_expr(expr) ==
    CASE expr.kind = "Constant" -> expr.value
      [] expr.kind = "Name" -> PyStr(expr.id)
      [] OTHER -> PyStr("None")

(***************************************************************************)
(* PyiGenerator.get_generic_type: the regular expression, the literal     *)
(* text Generic, an opening bracket, a greedy group of any characters and  *)
(* a closing bracket, is matched against each base text in turn.  match    *)
(* anchors at the start only; the greedy group runs to the last closing    *)
(* bracket of the text.                                                    *)
(***************************************************************************)
ClosePositions(item) == {i \in 9..Len(item) : SubSeq(item, i, i) = "]"}

GenericMatches(item) == startswith(item, "Generic[") /\ ClosePositions(item) # {}

GenericGroup(item) ==
    LET last == CHOOSE i \in ClosePositions(item) :
                    \A j \in ClosePositions(item) : j <= i
    IN SubSeq(item, 9, last - 1)

\* the Python None returned when no base matches
NoGeneric == [found |-> FALSE]

RECURSIVE get_generic_type(_)
get_generic_type(base) ==
    IF Len(base) = 0 THEN NoGeneric
    ELSE IF GenericMatches(Head(base))
         THEN [found |-> TRUE, group |-> GenericGroup(Head(base))]
         ELSE get_generic_type(Tail(base))

(***************************************************************************)
(* ast statement nodes of a class body, and ast.arg.                       *)
(***************************************************************************)
arg(name, annotation) == [arg |-> name, annotation |-> annotation]

AnnAssign(target, annotation) ==
    [kind |-> "AnnAssign", target |-> target, annotation |-> annotation]

FunctionDef(name, posonlyargs, args, defaults, returns, decorator_list) ==
    [kind |-> "FunctionDef", name |-> name, posonlyargs |-> posonlyargs,
     args |-> args, defaults |-> defaults, returns |-> returns,
     decorator_list |-> decorator_list]

AsyncFunctionDef(name, posonlyargs, args, defaults, returns, decorator_list) ==
    [kind |-> "AsyncFunctionDef", name |-> name, posonlyargs |-> posonlyargs,
     args |-> args, defaults |-> defaults, returns |-> returns,
     decorator_list |-> decorator_list]

Pass == [kind |-> "Pass"]

ClassDef(name, bases, decorator_list, body) ==
    [kind |-> "ClassDef", name |-> name, bases |-> bases,
     decorator_list |-> decorator_list, body |-> body]

\* any(d.id == id for d in decorators if isinstance(d, ast.Name))
\* the isinstance filter left out, so a call such as @gain() counts as well
HasDecoratorAnyNode(decorators, id) ==
    \E i \in 1..Len(decorators) :
        \/ decorators[i].kind = "Name" /\ decorators[i].id = id
        \/ decorators[i].kind = "Call" /\ decorators[i].func.kind = "Name"
              /\ decorators[i].func.id = id

HasDecorator(decorators, id) ==
    \E i \in 1..Len(decorators) :
        decorators[i].kind = "Name" /\ decorators[i].id = id

\* xs[1:]
Rest(xs) == SubSeq(xs, 2, Len(xs))

\* [(arg.arg, self._get_type_annotation(arg.annotation)) for arg in args]
ArgPairs(args) ==
    [i \in 1..Len(args) |-> <<args[i].arg, _get_type_annotation(args[i].annotation)>>]

\* [self._get_value_expr(d) for d in defaults]
DefaultValues(defaults) == [i \in 1..Len(defaults) |-> _get_value_expr(defaults[i])]

\* case ast.AnnAssign(target=ast.Name(id=attr_name), annotation=annotation)
IsNamedAnnAssign(item) == item.kind = "AnnAssign" /\ item.target.kind = "Name"

IsReserved(attr_name) == startswith(attr_name, "_param_") \/ startswith(attr_name, "_prop_")

IsAttribute(item) == IsNamedAnnAssign(item) /\ ~IsReserved(item.target.id)

IsProperty(item) ==
    item.kind = "FunctionDef" /\ HasDecorator(item.decorator_list, "property")

IsStaticmethod(item) ==
    /\ item.kind = "FunctionDef"
    /\ ~HasDecorator(item.decorator_list, "property")
    /\ HasDecorator(item.decorator_list, "staticmethod")

IsClassmethod(item) ==
    /\ item.kind = "FunctionDef"
    /\ ~HasDecorator(item.decorator_list, "property")
    /\ ~HasDecorator(item.decorator_list, "staticmethod")
    /\ HasDecorator(item.decorator_list, "classmethod")

IsMethod(item) ==
    /\ item.kind = "FunctionDef"
    /\ ~HasDecorator(item.decorator_list, "property")
    /\ ~HasDecorator(item.decorator_list, "staticmethod")
    /\ ~HasDecorator(item.decorator_list, "classmethod")

IsAsyncMethod(item) == item.kind = "AsyncFunctionDef"

\* the tuple appended to attributes
AttributeOf(item) == <<item.target.id, _get_type_annotation(item.annotation)>>

\* the tuple appended to async_methods
AsyncMethodOf(item) ==
    [method_name |-> item.name,
     args |-> ArgPairs(Rest(item.args)),
     defaults |-> DefaultValues(item.defaults),
     return_type |-> _get_type_annotation(item.returns)]

\* the tuple appended to methods
MethodOf(item) ==
    [method_name |-> item.name,
     posonlyargs |-> ArgPairs(Rest(item.posonlyargs)),
     args |-> ArgPairs(Rest(item.args)),
     defaults |-> DefaultValues(item.defaults),
     return_type |-> _get_type_annotation(item.returns)]

\* the tuple appended to staticmethods
StaticmethodOf(item) ==
    [method_name |-> item.name,
     args |-> ArgPairs(item.args),
     return_type |-> _get_type_annotation(item.returns)]

\* the tuple appended to classmethods
ClassmethodOf(item) ==
    [method_name |-> item.name,
     args |-> ArgPairs(Rest(item.args)),
     return_type |-> _get_type_annotation(item.returns)]

\* the tuple appended to properties
PropertyOf(item) == <<item.name, _get_type_annotation(item.returns)>>

\* the members of one kind, in body order
Collect(body, Test(_), Make(_)) ==
    LET kept == SelectSeq(body, Test)
    IN [i \in 1..Len(kept) |-> Make(kept[i])]

BuildAttributes(body) == Collect(body, IsAttribute, AttributeOf)
BuildAsyncMethods(body) == Collect(body, IsAsyncMethod, AsyncMethodOf)
BuildMethods(body) == Collect(body, IsMethod, MethodOf)
BuildStaticmethods(body) == Collect(body, IsStaticmethod, StaticmethodOf)
BuildClassmethods(body) == Collect(body, IsClassmethod, ClassmethodOf)
BuildProperties(body) == Collect(body, IsProperty, PropertyOf)

\* the generic parameter left out of full_class_name
FullClassNameBare(class_name, base_classes) == class_name

\* full_class_name
FullClassName(class_name, base_classes) ==
    IF get_generic_type(base_classes).found
    THEN class_name \o "[" \o get_generic_type(base_classes).group \o "]"
    ELSE class_name

(***************************************************************************)
(* The builder rule.                                                       *)
(***************************************************************************)
\* fields[key] = value on an insertion-ordered dict kept as a list of pairs
DictSet(d, key, value) ==
    IF \E i \in 1..Len(d) : d[i][1] = key
    THEN [i \in 1..Len(d) |-> IF d[i][1] = key THEN <<key, value>> ELSE d[i]]
    ELSE Append(d, <<key, value>>)

\* the fields dict filled from the raw body
RECURSIVE FieldsFrom(_, _)
FieldsFrom(d, body) ==
    IF Len(body) = 0 THEN d
    ELSE IF IsNamedAnnAssign(Head(body))
         THEN FieldsFrom(DictSet(d, Head(body).target.id,
                                 _get_type_annotation(Head(body).annotation)),
                         Tail(body))
         ELSE FieldsFrom(d, Tail(body))

BuilderFields(body) == FieldsFrom(<<>>, body)

\* prop_name of a _param_ field
ParamPropName(field_name) ==
    IF endswith(field_name, "_u8")
    THEN SliceDropLast(SliceFrom(field_name, 7), 3)
    ELSE SliceFrom(field_name, 7)

\* prop_name of a _prop_ field
PropPropName(field_name) == SliceFrom(field_name, 6)

\* field_type as accepted by the with_ method
WidenedType(field_type) ==
    IF field_type = "EmitIntensity" THEN "int | EmitIntensity"
    ELSE IF field_type = "Phase" THEN "int | Phase"
    ELSE field_type

\* a synthesized entry of methods
Method(method_name, posonlyargs, args, defaults, return_type) ==
    [method_name |-> method_name, posonlyargs |-> posonlyargs, args |-> args,
     defaults |-> defaults, return_type |-> return_type]

\* the prefix test cut short, so that _prop_ fields pass it too
IsParamFieldAnyReserved(field) == startswith(field[1], "_p")

IsParamField(field) == startswith(field[1], "_param_")
IsPropField(field) == startswith(field[1], "_prop_")
IsParamOrPropField(field) == IsParamField(field) \/ IsPropField(field)

BuilderPropertyOf(field) ==
    IF IsParamField(field)
    THEN <<ParamPropName(field[1]), field[2]>>
    ELSE <<PropPropName(field[1]), field[2]>>

\* properties appended by the builder rule, in field order
BuilderProperties(fields) == Collect(fields, IsParamOrPropField, BuilderPropertyOf)

\* methods appended by the builder rule, in field order
BuilderMethods(fields, full_class_name) ==
    LET params == SelectSeq(fields, IsParamField)
    IN [i \in 1..Len(params) |->
            Method("with_" \o ParamPropName(params[i][1]), <<>>,
                   <<<<ParamPropName(params[i][1]), WidenedType(params[i][2])>>>>,
                   <<>>, full_class_name)]

(***************************************************************************)
(* The gain, modulation, datagram and datagram_with_segment rules: the     *)
(* methods and the imports each appends.                                   *)
(***************************************************************************)
GainMethods(class_name, full_class_name) ==
    IF class_name # "Cache"
    THEN <<Method("with_cache", <<>>, <<>>, <<>>, "Cache[" \o full_class_name \o "]")>>
    ELSE <<>>

GainImports(class_name) ==
    IF class_name # "Cache" THEN <<"from pyautd3.gain.cache import Cache">> ELSE <<>>

\* the three modulation wrappers gated by the one check against Cache
ModulationMethodsOneCheck(class_name, full_class_name) ==
    IF class_name # "Cache"
    THEN <<Method("with_cache", <<>>, <<>>, <<>>, "Cache[" \o full_class_name \o "]"),
           Method("with_fir", <<>>, <<<<"iterable", "Iterable[float]">>>>, <<>>,
                  "Fir[" \o full_class_name \o "]"),
           Method("with_radiation_pressure", <<>>, <<>>, <<>>,
                  "RadiationPressure[" \o full_class_name \o "]")>>
    ELSE <<>>

ModulationMethods(class_name, full_class_name) ==
    (IF class_name # "Cache"
     THEN <<Method("with_cache", <<>>, <<>>, <<>>, "Cache[" \o full_class_name \o "]")>>
     ELSE <<>>)
    \o (IF class_name # "Fir"
        THEN <<Method("with_fir", <<>>, <<<<"iterable", "Iterable[float]">>>>, <<>>,
                      "Fir[" \o full_class_name \o "]")>>
        ELSE <<>>)
    \o (IF class_name # "RadiationPressure"
        THEN <<Method("with_radiation_pressure", <<>>, <<>>, <<>>,
                      "RadiationPressure[" \o full_class_name \o "]")>>
        ELSE <<>>)

ModulationImports(class_name) ==
    (IF class_name # "Cache"
     THEN <<"from pyautd3.modulation.cache import Cache">>
     ELSE <<>>)
    \o (IF class_name # "Fir"
        THEN <<"from pyautd3.modulation.fir import Fir",
               "from collections.abc import Iterable">>
        ELSE <<>>)
    \o (IF class_name # "RadiationPressure"
        THEN <<"from pyautd3.modulation.radiation_pressure import RadiationPressure">>
        ELSE <<>>)

DatagramMethods(class_name, full_class_name) ==
    (IF class_name # "DatagramWithTimeout"
     THEN <<Method("with_timeout", <<>>, <<<<"timeout", "Duration | None">>>>, <<>>,
                   "DatagramWithTimeout[" \o full_class_name \o "]")>>
     ELSE <<>>)
    \o (IF class_name # "DatagramWithParallelThreshold"
        THEN <<Method("with_parallel_threshold", <<>>,
                      <<<<"threshold", "int | None">>>>, <<>>,
                      "DatagramWithParallelThreshold[" \o full_class_name \o "]")>>
        ELSE <<>>)

DatagramImports(class_name) ==
    (IF class_name # "DatagramWithTimeout"
     THEN <<"from pyautd3.utils import Duration",
            "from pyautd3.driver.datagram.with_timeout import DatagramWithTimeout">>
     ELSE <<>>)
    \o (IF class_name # "DatagramWithParallelThreshold"
        THEN <<"from pyautd3.driver.datagram.with_parallel_threshold import DatagramWithParallelThreshold">>
        ELSE <<>>)

SegmentMethods(full_class_name) ==
    <<Method("with_segment", <<>>,
             <<<<"segment", "Segment">>, <<"transition_mode", "TransitionModeWrap | None">>>>,
             <<>>, "DatagramWithSegment[" \o full_class_name \o "]")>>

SegmentImports ==
    <<"from pyautd3.native_methods.autd3capi_driver import TransitionModeWrap",
      "from pyautd3.native_methods.autd3_core import Segment",
      "from pyautd3.driver.datagram.with_segment import DatagramWithSegment">>

\* the rule of one marker applies
Marked(n, marker) == HasDecorator(n.decorator_list, marker)

Markers == {"builder", "gain", "modulation", "datagram", "datagram_with_segment"}

\* the methods the rules append to methods, in rule order
ExpandedMethods(n, class_name, full_class_name) ==
    (IF Marked(n, "builder")
     THEN BuilderMethods(BuilderFields(n.body), full_class_name) ELSE <<>>)
    \o (IF Marked(n, "gain") THEN GainMethods(class_name, full_class_name) ELSE <<>>)
    \o (IF Marked(n, "modulation")
        THEN ModulationMethods(class_name, full_class_name) ELSE <<>>)
    \o (IF Marked(n, "datagram")
        THEN DatagramMethods(class_name, full_class_name) ELSE <<>>)
    \o (IF Marked(n, "datagram_with_segment")
        THEN SegmentMethods(full_class_name) ELSE <<>>)

\* the properties the rules append to properties
ExpandedProperties(n) ==
    IF Marked(n, "builder") THEN BuilderProperties(BuilderFields(n.body)) ELSE <<>>

\* the entries the rules append to self.imports, in rule order
ExpandedImports(n, class_name) ==
    (IF Marked(n, "gain") THEN GainImports(class_name) ELSE <<>>)
    \o (IF Marked(n, "modulation") THEN ModulationImports(class_name) ELSE <<>>)
    \o (IF Marked(n, "datagram") THEN DatagramImports(class_name) ELSE <<>>)
    \o (IF Marked(n, "datagram_with_segment") THEN SegmentImports ELSE <<>>)

\* self.should_generate after the rules
ShouldGenerateAfter(flag, n) == flag \/ \E marker \in Markers : Marked(n, marker)

\* the tuple appended to self.class_defs
ClassModel(n) ==
    LET class_name == n.name
        base_classes == TranslateAll(n.bases)
        full_class_name == FullClassName(class_name, base_classes)
    IN [class_name |-> class_name,
        full_class_name |-> full_class_name,
        base_classes |-> base_classes,
        attributes |-> BuildAttributes(n.body),
        async_methods |-> BuildAsyncMethods(n.body),
        methods |-> BuildMethods(n.body)
                        \o ExpandedMethods(n, class_name, full_class_name),
        staticmethods |-> BuildStaticmethods(n.body),
        classmethods |-> BuildClassmethods(n.body),
        properties |-> BuildProperties(n.body) \o ExpandedProperties(n)]

(***************************************************************************)
(* PyiGenerator.generate_pyi.                                              *)
(***************************************************************************)
\* ["None"] * (len(args) - len(defaults)) + defaults
PaddedDefaults(args, defaults) ==
    Repeat(PyStr("None"), Len(args) - Len(defaults)) \o defaults

\* zip(args, defaults, strict=True) raises ValueError on unequal lengths
ZipRaises(args, defaults) == Len(args) # Len(PaddedDefaults(args, defaults))

\* f"{name}: {ty}" + (f" = {default}" if default != "None" else "")
ParamStr(pair, default) ==
    pair[1] \o ": " \o pair[2]
        \o (IF default # PyStr("None") THEN " = " \o str(default) ELSE "")

\* args_str of a method with defaults
ArgsStr(args, defaults) ==
    LET padded == PaddedDefaults(args, defaults)
    IN join(", ", [i \in 1..Len(args) |-> ParamStr(args[i], padded[i])])

\* ", ".join([f"{name}: {ty}" for name, ty in args])
PlainArgsStr(args) ==
    join(", ", [i \in 1..Len(args) |-> args[i][1] \o ": " \o args[i][2]])

AttributeLine(a) == "    " \o a[1] \o ": " \o a[2]

AsyncMethodLine(c, m) ==
    "    async def " \o m.method_name \o "(self: " \o c.full_class_name \o ", "
        \o ArgsStr(m.args, m.defaults) \o ") -> " \o m.return_type \o ": ..."

\* args_str of a regular method, positional-only group included
MethodArgsStr(m) ==
    IF PlainArgsStr(m.posonlyargs) # ""
    THEN PlainArgsStr(m.posonlyargs) \o ", /, " \o ArgsStr(m.args, m.defaults)
    ELSE ArgsStr(m.args, m.defaults)

MethodLine(c, m) ==
    IF m.method_name = "__new__"
    THEN "    def " \o m.method_name \o "(cls, " \o MethodArgsStr(m) \o ") -> "
            \o m.return_type \o ": ..."
    ELSE IF m.method_name = "__init__" /\ c.class_name = "FociSTM"
    THEN "    def " \o m.method_name \o "(self: " \o c.class_name \o ", "
            \o MethodArgsStr(m) \o ") -> " \o m.return_type \o ": ..."
    ELSE "    def " \o m.method_name \o "(self: " \o c.full_class_name \o ", "
            \o MethodArgsStr(m) \o ") -> " \o m.return_type \o ": ..."

StaticmethodLines(m) ==
    <<"    @staticmethod",
      "    def " \o m.method_name \o "(" \o PlainArgsStr(m.args) \o ") -> "
            \o m.return_type \o ": ...">>

ClassmethodLines(m) ==
    <<"    @classmethod",
      "    def " \o m.method_name \o "(cls, " \o PlainArgsStr(m.args) \o ") -> "
            \o m.return_type \o ": ...">>

PropertyLines(c, p) ==
    <<"    @property",
      "    def " \o p[1] \o "(self: " \o c.full_class_name \o ") -> " \o p[2] \o ": ...">>

ClassHeader(c) == "class " \o c.class_name \o "(" \o join(", ", c.base_classes) \o "):"

RECURSIVE Flatten(_)
Flatten(xss) == IF Len(xss) = 0 THEN <<>> ELSE Head(xss) \o Flatten(Tail(xss))

\* the lines of one class with the class methods emitted before the static
\* methods
ClassLinesClassmethodsFirst(c) ==
    <<ClassHeader(c)>>
    \o [i \in 1..Len(c.attributes) |-> AttributeLine(c.attributes[i])]
    \o [i \in 1..Len(c.async_methods) |-> AsyncMethodLine(c, c.async_methods[i])]
    \o [i \in 1..Len(c.methods) |-> MethodLine(c, c.methods[i])]
    \o Flatten([i \in 1..Len(c.classmethods) |-> ClassmethodLines(c.classmethods[i])])
    \o Flatten([i \in 1..Len(c.staticmethods) |-> StaticmethodLines(c.staticmethods[i])])
    \o Flatten([i \in 1..Len(c.properties) |-> PropertyLines(c, c.properties[i])])
    \o <<"">>

\* the lines one class contributes
ClassLines(c) ==
    <<ClassHeader(c)>>
    \o [i \in 1..Len(c.attributes) |-> AttributeLine(c.attributes[i])]
    \o [i \in 1..Len(c.async_methods) |-> AsyncMethodLine(c, c.async_methods[i])]
    \o [i \in 1..Len(c.methods) |-> MethodLine(c, c.methods[i])]
    \o Flatten([i \in 1..Len(c.staticmethods) |-> StaticmethodLines(c.staticmethods[i])])
    \o Flatten([i \in 1..Len(c.classmethods) |-> ClassmethodLines(c.classmethods[i])])
    \o Flatten([i \in 1..Len(c.properties) |-> PropertyLines(c, c.properties[i])])
    \o <<"">>

\* the list lines at the return statement
Lines(defs) == Flatten([i \in 1..Len(defs) |-> ClassLines(defs[i])])

\* some method of some class makes the strict zip raise
Raises(defs) ==
    \E i \in 1..Len(defs) :
        \/ \E j \in 1..Len(defs[i].async_methods) :
              ZipRaises(defs[i].async_methods[j].args, defs[i].async_methods[j].defaults)
        \/ \E j \in 1..Len(defs[i].methods) :
              ZipRaises(defs[i].methods[j].args, defs[i].methods[j].defaults)

\* the outcome of a call: the returned text, or the ValueError it raises
generate_pyi(defs) ==
    IF Raises(defs)
    THEN [raised |-> TRUE, text |-> ""]
    ELSE [raised |-> FALSE, text |-> join("\n", Lines(defs))]

\* the padding done in place on the stored list instead of on a new one
DefaultsPaddedInPlace(m) == PaddedDefaults(m.args, m.defaults)

\* the defaults list a stored method holds once the loop has rebound its
\* local name defaults to the padded list
DefaultsAfterRender(m) == m.defaults

\* a stored method once generate_pyi has gone over it
MethodAfterRender(m) == [m EXCEPT !.defaults = DefaultsAfterRender(m)]

\* self.class_defs after a call of generate_pyi
ClassDefsAfterRender(defs) ==
    [i \in 1..Len(defs) |->
        [defs[i] EXCEPT
            !.async_methods = [j \in 1..Len(defs[i].async_methods) |->
                                  MethodAfterRender(defs[i].async_methods[j])],
            !.methods = [j \in 1..Len(defs[i].methods) |->
                            MethodAfterRender(defs[i].methods[j])]]]

(***************************************************************************)
(* The generator as a state machine.  class_defs, imports and              *)
(* should_generate are the fields of PyiGenerator; node is the statement   *)
(* handed to the last visit_ call; result lists the outcomes of the calls  *)
(* of generate_pyi made since the last visit.                              *)
(***************************************************************************)
Init ==
    /\ class_defs = <<>>
    /\ imports = <<>>
    /\ should_generate = FALSE
    /\ node = NoNode
    /\ result = <<>>

alias(name, asname) == [name |-> name, asname |-> asname]
Import(names) == [kind |-> "Import", names |-> names]
ImportFrom(module, names) == [kind |-> "ImportFrom", module |-> module, names |-> names]

\* "if alias.asname": None and the empty text are both false
WithAsname(import_name, a) ==
    IF a.asname # PyNone /\ a.asname # PyStr("")
    THEN import_name \o " as " \o str(a.asname)
    ELSE import_name

\* the entries one import statement appends to self.imports
ImportNames(n) ==
    [i \in 1..Len(n.names) |-> WithAsname("import " \o n.names[i].name, n.names[i])]

ImportFromNames(n) ==
    [i \in 1..Len(n.names) |->
        WithAsname("from " \o str(n.module) \o " import " \o n.names[i].name,
                   n.names[i])]

visit_Import(n) ==
    /\ imports' = imports \o ImportNames(n)
    /\ node' = n
    /\ result' = <<>>
    /\ UNCHANGED <<class_defs, should_generate>>

visit_ImportFrom(n) ==
    /\ imports' = imports \o ImportFromNames(n)
    /\ node' = n
    /\ result' = <<>>
    /\ UNCHANGED <<class_defs, should_generate>>

visit_ClassDef(n) ==
    /\ class_defs' = Append(class_defs, ClassModel(n))
    /\ imports' = imports \o ExpandedImports(n, n.name)
    /\ should_generate' = ShouldGenerateAfter(should_generate, n)
    /\ node' = n
    /\ result' = <<>>

(***************************************************************************)
(* The walk PyiGenerator inherits from ast.NodeVisitor: visit dispatches   *)
(* to the handler named after the node's class and to generic_visit when   *)
(* there is none; generic_visit visits the children of a node in field     *)
(* order.  A walk is computed on a record of the three fields of the       *)
(* generator.                                                              *)
(***************************************************************************)
Module(body) == [kind |-> "Module", body |-> body]
If(body, orelse) == [kind |-> "If", body |-> body, orelse |-> orelse]
ExceptHandler(body) == [kind |-> "ExceptHandler", body |-> body]
Try(body, handlers, orelse, finalbody) ==
    [kind |-> "Try", body |-> body, handlers |-> handlers, orelse |-> orelse,
     finalbody |-> finalbody]

\* a function definition together with the statements of its body
WithBody(f, body) ==
    [kind |-> f.kind, name |-> f.name, posonlyargs |-> f.posonlyargs,
     args |-> f.args, defaults |-> f.defaults, returns |-> f.returns,
     decorator_list |-> f.decorator_list, body |-> body]

\* the child statements of a node without a handler, in field order; its
\* expression children (tests, arguments, decorators) hold no statement and
\* reach no handler
Children(n) ==
    CASE n.kind = "Module" -> n.body
      [] n.kind \in {"FunctionDef", "AsyncFunctionDef"} -> n.body
      [] n.kind = "If" -> n.body \o n.orelse
      [] n.kind = "Try" -> n.body \o n.handlers \o n.orelse \o n.finalbody
      [] n.kind = "ExceptHandler" -> n.body
      [] OTHER -> <<>>

Self == [class_defs |-> class_defs, imports |-> imports,
         should_generate |-> should_generate]

RECURSIVE visit(_, _)
RECURSIVE generic_visit(_, _)
RECURSIVE VisitEach(_, _)

visit(self, n) ==
    CASE n.kind = "Import" ->
            [self EXCEPT !.imports = self.imports \o ImportNames(n)]
      [] n.kind = "ImportFrom" ->
            [self EXCEPT !.imports = self.imports \o ImportFromNames(n)]
      [] n.kind = "ClassDef" ->
            [class_defs |-> Append(self.class_defs, ClassModel(n)),
             imports |-> self.imports \o ExpandedImports(n, n.name),
             should_generate |-> ShouldGenerateAfter(self.should_generate, n)]
      [] OTHER -> generic_visit(self, n)

generic_visit(self, n) == VisitEach(self, Children(n))

VisitEach(self, nodes) ==
    IF Len(nodes) = 0 THEN self
    ELSE VisitEach(visit(self, Head(nodes)), Tail(nodes))

\* generator.visit(tree) for the tree of a whole module
VisitTree(tree) ==
    LET after == visit(Self, tree)
    IN /\ class_defs' = after.class_defs
       /\ imports' = after.imports
       /\ should_generate' = after.should_generate
       /\ node' = tree
       /\ result' = <<>>

GeneratePyi ==
    /\ Len(result) < MaxCalls
    /\ result' = Append(result, generate_pyi(class_defs))
    /\ class_defs' = ClassDefsAfterRender(class_defs)
    /\ UNCHANGED <<imports, should_generate, node>>

(***************************************************************************)
(* Inputs.                                                                 *)
(***************************************************************************)
\* sequences over S of length at most n
SeqsUpTo(S, n) == UNION {[1..k -> S] : k \in 0..n}

Generic(argument) == Subscript(Name("Generic"), argument)

\* class definitions of a small module: unmarked and marked ones
ClassNodes ==
    {ClassDef("A", <<>>, <<>>, <<Pass>>),
     ClassDef("B", <<Name("A")>>, <<>>,
              <<AnnAssign(Name("x"), Name("int")),
                AnnAssign(Name("_param_y"), Name("int")),
                FunctionDef("f", <<>>, <<arg("self", NoNode), arg("a", Name("int"))>>,
                            <<Constant(PyInt(1))>>, Name("int"), <<>>)>>),
     ClassDef("C", <<Generic(Name("T"))>>, <<Call(Name("gain"))>>,
              <<FunctionDef("p", <<>>, <<arg("self", NoNode)>>, <<>>, Name("T"),
                            <<Name("property")>>)>>),
     ClassDef("Foo", <<Generic(Name("int"))>>, <<Name("builder")>>,
              <<AnnAssign(Name("_param_level"), Name("int"))>>),
     ClassDef("G", <<>>, <<Name("gain")>>, <<Pass>>),
     ClassDef("Cache", <<>>, <<Name("gain")>>, <<Pass>>),
     ClassDef("S", <<>>, <<Name("datagram_with_segment")>>, <<Pass>>)}

ImportNodes ==
    {Import(<<alias("ast", PyNone)>>),
     Import(<<alias("numpy", PyStr("np")), alias("re", PyNone)>>)}

ImportFromNodes ==
    {ImportFrom(PyStr("typing"), <<alias("Self", PyNone)>>),
     ImportFrom(PyNone, <<alias("x", PyStr("y"))>>)}

VisitClass == Len(class_defs) < MaxClasses /\ \E n \in ClassNodes : visit_ClassDef(n)

VisitImport == Len(imports) < MaxImports /\ \E n \in ImportNodes : visit_Import(n)

VisitImportFrom ==
    Len(imports) < MaxImports /\ \E n \in ImportFromNodes : visit_ImportFrom(n)

Next == VisitClass \/ VisitImport \/ VisitImportFrom \/ GeneratePyi

Spec == Init /\ [][Next]_vars

(***************************************************************************)
(* Specification SpecBuilder: builder-marked classes whose bodies are      *)
(* annotated fields.                                                       *)
(***************************************************************************)
FieldSamples ==
    {<<"_param_foo", "int">>, <<"_param_foo", "EmitIntensity">>,
     <<"_param_foo_u8", "Phase">>, <<"_param_foo_u8", "int">>,
     <<"_prop_foo", "int">>, <<"_param_u8", "int">>,
     <<"_prop_bar_u8", "Phase">>, <<"bar", "int">>}

FieldItems == {AnnAssign(Name(f[1]), Name(f[2])) : f \in FieldSamples}

BuilderHeads ==
    {<<"Foo", <<Generic(Name("int"))>>>>,
     <<"FociSTM", <<Generic(Subscript(Name("list"), Name("T")))>>>>,
     <<"Bar", <<>>>>}

BuilderNodes ==
    {ClassDef(h[1], h[2], <<Name("builder")>>, body) :
        h \in BuilderHeads, body \in SeqsUpTo(FieldItems, MaxFields)}

\* the module of a run holds one such class
VisitBuilderClass ==
    class_defs = <<>> /\ \E n \in BuilderNodes : visit_ClassDef(n)

NextBuilder == VisitBuilderClass \/ GeneratePyi

SpecBuilder == Init /\ [][NextBuilder]_vars

(***************************************************************************)
(* Specification SpecMarker: classes with any combination of the five      *)
(* markers, the self-excluded names among them.                            *)
(***************************************************************************)
MarkerOrder == <<"builder", "gain", "modulation", "datagram", "datagram_with_segment">>

\* the decorator list holding the markers of S
DecoratorsOf(S) ==
    LET kept == SelectSeq(MarkerOrder, LAMBDA marker : marker \in S)
    IN [i \in 1..Len(kept) |-> Name(kept[i])]

MarkerHeads ==
    {<<"Cache", <<Generic(Name("T"))>>>>,
     <<"Fir", <<>>>>,
     <<"RadiationPressure", <<Generic(Name("T"))>>>>,
     <<"DatagramWithTimeout", <<>>>>,
     <<"DatagramWithParallelThreshold", <<Name("Datagram")>>>>,
     <<"Foo", <<>>>>,
     <<"Foo", <<Generic(Name("int"))>>>>}

MarkerNodes ==
    {ClassDef(h[1], h[2], DecoratorsOf(S), <<Pass>>) :
        h \in MarkerHeads, S \in SUBSET Markers}
    \cup {ClassDef("Foo", <<>>, <<Attribute(Name("x"), "gain")>>, <<Pass>>),
          ClassDef("Foo", <<>>, <<Call(Name("modulation")), Name("datagram")>>, <<Pass>>)}

\* the module of a run holds import statements and one such class
VisitMarkedClass ==
    class_defs = <<>> /\ \E n \in MarkerNodes : visit_ClassDef(n)

VisitImportBefore ==
    /\ class_defs = <<>>
    /\ Len(imports) < MaxImports
    /\ \E n \in ImportNodes : visit_Import(n)

NextMarker == VisitImportBefore \/ VisitMarkedClass \/ GeneratePyi

SpecMarker == Init /\ [][NextMarker]_vars

(***************************************************************************)
(* Specification SpecMethod: classes whose body is one function            *)
(* definition with p positional-only parameters, a ordinary parameters     *)
(* and k defaults.  As in ast.arguments the defaults belong to the last k  *)
(* of the p + a positional parameters; the first parameter has none.       *)
(***************************************************************************)
ParamName(i) == IF i = 1 THEN "self" ELSE "p" \o ToString(i)

ParamAt(i) == arg(ParamName(i), IF i = 1 THEN NoNode ELSE Name("int"))

\* parameters number from..to in declaration order
Params(from, to) == [i \in 1..(to - from + 1) |-> ParamAt(from + i - 1)]

DefaultFlavours == {"int", "call", "none"}

\* k defaults of p + a parameters; the default of parameter i is the
\* constant i, the last one varied by flavour
Defaults(total, k, flavour) ==
    [i \in 1..k |->
        IF i = k /\ flavour = "call" THEN Call(Name("f"))
        ELSE IF i = k /\ flavour = "none" THEN Constant(PyNone)
        ELSE Constant(PyInt(total - k + i))]

Signatures ==
    {<<p, a, k, flavour>> \in
        (0..MaxPosonly) \X (0..MaxParams) \X (0..(MaxPosonly + MaxParams)) \X DefaultFlavours :
            /\ k < p + a \/ k = 0
            /\ k = 0 => flavour = "int"}

MethodDecorators ==
    {<<Name("property")>>, <<Name("staticmethod")>>, <<Name("classmethod")>>,
     <<Attribute(Name("abc"), "property")>>}

MethodItems ==
    {FunctionDef("f", Params(1, g[1]), Params(g[1] + 1, g[1] + g[2]),
                 Defaults(g[1] + g[2], g[3], g[4]), Name("int"), <<>>) :
        g \in Signatures}
    \cup {AsyncFunctionDef("f", Params(1, g[1]), Params(g[1] + 1, g[1] + g[2]),
                           Defaults(g[1] + g[2], g[3], g[4]), Name("int"), <<>>) :
            g \in Signatures}
    \cup {FunctionDef("f", Params(1, g[1]), Params(g[1] + 1, g[1] + g[2]),
                      <<>>, Name("int"), d) :
            g \in {h \in Signatures : h[3] = 0}, d \in MethodDecorators}

MethodNodes == {ClassDef("M", <<>>, <<>>, <<item>>) : item \in MethodItems}

\* the module of a run holds one such class
VisitMethodClass ==
    class_defs = <<>> /\ \E n \in MethodNodes : visit_ClassDef(n)

NextMethod == VisitMethodClass \/ GeneratePyi

SpecMethod == Init /\ [][NextMethod]_vars

(***************************************************************************)
(* Specification SpecType: classes whose body is one annotated field; the  *)
(* annotation is any node of depth at most MaxDepth, node shapes outside   *)
(* the grammar (a call, a binary operator other than |) among them.        *)
(***************************************************************************)
TypeLeaves ==
    {Name("a"), Constant(PyStr("Foo")), Constant(PyInt(1)), Constant(PyNone),
     Constant(PyEllipsis), NoNode, Call(Name("f"))}

\* the other operand of a composite node
TypeOperands == {Name("b"), Subscript(Name("c"), Name("d"))}

\* the nodes built from a node of S by one more level
Composites(S) ==
    UNION {{Subscript(x, q), BinOp(x, "BitOr", q)} : x \in S, q \in TypeOperands}
    \cup UNION {{Subscript(Name("b"), x), BinOp(Name("b"), "BitOr", x),
                 BinOp(x, "Add", Name("b")), Tuple(<<x, Name("b")>>), Tuple(<<x>>),
                 List(<<Name("b"), x>>), Attribute(x, "attr")} : x \in S}

RECURSIVE TypeNodes(_)
TypeNodes(depth) ==
    IF depth = 0 THEN TypeLeaves
    ELSE TypeNodes(depth - 1) \cup Composites(TypeNodes(depth - 1))

AnnotatedNodes ==
    {ClassDef("T", <<>>, <<>>, <<AnnAssign(Name("x"), t)>>) : t \in TypeNodes(MaxDepth)}

\* the module of a run holds one such class
VisitAnnotatedClass ==
    class_defs = <<>> /\ \E n \in AnnotatedNodes : visit_ClassDef(n)

NextType == VisitAnnotatedClass \/ GeneratePyi

SpecType == Init /\ [][NextType]_vars

(***************************************************************************)
(* Specification SpecModule: one generator walks the tree of one module    *)
(* whose statements are imports, classes, and functions, conditionals and  *)
(* try blocks that hold further classes and imports.                       *)
(***************************************************************************)
MaxStatements == 2

\* def name(): with the given body
Def(name, body) == WithBody(FunctionDef(name, <<>>, <<>>, <<>>, NoNode, <<>>), body)

Statements ==
    {Pass,
     Import(<<alias("ast", PyNone)>>),
     ImportFrom(PyStr("typing"), <<alias("Self", PyNone)>>),
     ClassDef("A", <<>>, <<>>, <<Pass>>),
     ClassDef("G", <<>>, <<Name("gain")>>, <<Pass>>),
     ClassDef("Outer", <<>>, <<>>,
              <<ClassDef("InClass", <<>>, <<>>, <<Pass>>), Import(<<alias("c", PyNone)>>)>>),
     ClassDef("Host", <<>>, <<>>,
              <<WithBody(FunctionDef("m", <<>>, <<arg("self", NoNode)>>, <<>>,
                                     Name("int"), <<>>),
                         <<ClassDef("InMethod", <<>>, <<>>, <<Pass>>)>>)>>),
     Def("f", <<ClassDef("InDef", <<>>, <<>>, <<Pass>>),
                Import(<<alias("d", PyNone)>>)>>),
     Def("g", <<If(<<ClassDef("Deep", <<>>, <<Name("gain")>>, <<Pass>>)>>, <<>>)>>),
     If(<<ClassDef("InIf", <<>>, <<>>, <<Pass>>)>>,
        <<ImportFrom(PyStr("q"), <<alias("r", PyStr("s"))>>)>>),
     Try(<<Import(<<alias("t", PyNone)>>)>>,
         <<ExceptHandler(<<ClassDef("InExcept", <<>>, <<>>, <<Pass>>)>>)>>,
         <<>>,
         <<ClassDef("InFinally", <<>>, <<>>, <<Pass>>)>>)}

ModuleTrees == {Module(body) : body \in SeqsUpTo(Statements, MaxStatements)}

VisitModule ==
    /\ class_defs = <<>>
    /\ imports = <<>>
    /\ \E tree \in ModuleTrees : VisitTree(tree)

NextModule == VisitModule \/ GeneratePyi

SpecModule == Init /\ [][NextModule]_vars

(***************************************************************************)
(* Specification SpecOrder: classes that declare members of every kind, in *)
(* an order other than the one of the rendering, and classes of one name,  *)
(* with import statements visited in between.                              *)
(***************************************************************************)
\* def name(first) -> int with the given decorators
Member(name, first, decorator_list) ==
    FunctionDef(name, <<>>, <<arg(first, NoNode)>>, <<>>, Name("int"), decorator_list)

OrderNodes ==
    {ClassDef("A", <<>>, <<>>, <<Pass>>),
     ClassDef("G", <<>>, <<Name("gain")>>,
              <<Member("f", "self", <<>>)>>),
     ClassDef("M", <<>>, <<>>, <<AnnAssign(Name("y"), Name("int"))>>),
     ClassDef("M", <<>>, <<Name("builder")>>,
              <<Member("p", "self", <<Name("property")>>),
                Member("cm", "cls", <<Name("classmethod")>>),
                FunctionDef("sm", <<>>, <<arg("a", Name("int"))>>, <<>>, Name("int"),
                            <<Name("staticmethod")>>),
                AnnAssign(Name("_param_z"), Name("int")),
                Member("f", "self", <<>>),
                AsyncFunctionDef("am", <<>>, <<arg("self", NoNode)>>, <<>>,
                                 Name("int"), <<>>),
                AnnAssign(Name("x"), Name("int")),
                Member("h", "self", <<>>)>>),
     ClassDef("N", <<Name("M")>>, <<Name("datagram")>>,
              <<Member("c2", "cls", <<Name("classmethod")>>),
                Member("s2", "a", <<Name("staticmethod")>>),
                AsyncFunctionDef("a2", <<>>, <<arg("self", NoNode)>>, <<>>,
                                 Name("int"), <<>>),
                AnnAssign(Name("x2"), Name("int")),
                Member("p2", "self", <<Name("property")>>),
                Member("p1", "self", <<Name("property")>>),
                AnnAssign(Name("x1"), Name("int")),
                AsyncFunctionDef("a1", <<>>, <<arg("self", NoNode)>>, <<>>,
                                 Name("int"), <<>>),
                Member("s1", "a", <<Name("staticmethod")>>),
                Member("c1", "cls", <<Name("classmethod")>>),
                Member("with_a", "self", <<>>)>>),
     ClassDef("Cache", <<>>, <<Name("gain"), Name("modulation")>>,
              <<Member("g", "self", <<>>), Member("f", "self", <<>>)>>)}

VisitOrderedClass ==
    Len(class_defs) < MaxClasses /\ \E n \in OrderNodes : visit_ClassDef(n)

NextOrder == VisitOrderedClass \/ VisitImport \/ GeneratePyi

SpecOrder == Init /\ [][NextOrder]_vars

(***************************************************************************)
(* Properties of the module-level state machine (specification Spec).      *)
(***************************************************************************)
\* the outcome of the latest call of generate_pyi
LastResult == result[Len(result)]

\* a step that is a call of visit_ClassDef; node' is the class it visited
IsClassVisit == Len(class_defs') = Len(class_defs) + 1

\* a step that is a call of generate_pyi
IsRender == Len(result') = Len(result) + 1

\* the markers a class definition carries: its decorators that are bare
\* names of rules
MarkersOf(n) ==
    {n.decorator_list[i].id :
        i \in {j \in 1..Len(n.decorator_list) : n.decorator_list[j].kind = "Name"}}
    \cap {"builder", "gain", "modulation", "datagram", "datagram_with_segment"}

Unmarked(n) == MarkersOf(n) = {}

\* C1: when no visited class carried a marker (should_generate is still
\* false), generate_pyi returns the empty text, also when unmarked classes
\* were visited.
GlobalGate ==
    (~should_generate /\ Len(result) > 0)
        => (~LastResult.raised /\ LastResult.text = "")

\* names the body declares, by member kind
DeclaredFunctions(body) ==
    {body[i].name : i \in {j \in 1..Len(body) :
                              body[j].kind \in {"FunctionDef", "AsyncFunctionDef"}}}

DeclaredFields(body) ==
    {body[i].target.id : i \in {j \in 1..Len(body) : IsNamedAnnAssign(body[j])}}

CountOf(body, Test(_)) == Cardinality({i \in 1..Len(body) : Test(body[i])})

IsFunction(item) == item.kind \in {"FunctionDef", "AsyncFunctionDef"}

\* C6: visiting a class that carries none of the five markers records its
\* declared members only: every recorded method and property is a function
\* of the body and there is one record per function, every recorded
\* attribute is an annotated field of the body; nothing is appended to
\* imports and should_generate keeps its value.
UnmarkedPassThrough ==
    [][(IsClassVisit /\ Unmarked(node'))
        => LET c == class_defs'[Len(class_defs')]
               body == node'.body
           IN /\ imports' = imports
              /\ should_generate' = should_generate
              /\ \A i \in 1..Len(c.methods) :
                    c.methods[i].method_name \in DeclaredFunctions(body)
              /\ \A i \in 1..Len(c.async_methods) :
                    c.async_methods[i].method_name \in DeclaredFunctions(body)
              /\ \A i \in 1..Len(c.staticmethods) :
                    c.staticmethods[i].method_name \in DeclaredFunctions(body)
              /\ \A i \in 1..Len(c.classmethods) :
                    c.classmethods[i].method_name \in DeclaredFunctions(body)
              /\ \A i \in 1..Len(c.properties) :
                    c.properties[i][1] \in DeclaredFunctions(body)
              /\ \A i \in 1..Len(c.attributes) :
                    c.attributes[i][1] \in DeclaredFields(body)
              /\ Len(c.methods) + Len(c.async_methods) + Len(c.staticmethods)
                    + Len(c.classmethods) + Len(c.properties)
                 = CountOf(body, IsFunction)
              /\ Len(c.attributes) = CountOf(body, IsAttribute)
      ]_vars

\* an unmarked class with members was visited after a marked one
UnmarkedPassThroughWitness ==
    /\ Len(class_defs) = 2
    /\ node.kind = "ClassDef" /\ Unmarked(node)
    /\ Len(node.decorator_list) > 0
    /\ Len(class_defs[2].properties) = 1
    /\ should_generate
    /\ Len(imports) > 0

(***************************************************************************)
(* Properties of the builder rule (specification SpecBuilder).             *)
(***************************************************************************)
\* the class model appended by the latest visit_ClassDef
LastClass == class_defs[Len(class_defs)]

IsBuilderVisited == node.kind = "ClassDef" /\ "builder" \in MarkersOf(node)

HasPrefix(s, prefix) == Len(s) >= Len(prefix) /\ SubSeq(s, 1, Len(prefix)) = prefix

HasSuffix(s, suffix) ==
    Len(s) >= Len(suffix) /\ SubSeq(s, Len(s) - Len(suffix) + 1, Len(s)) = suffix

\* the distinct field names of the body that begin with a prefix
FieldsWith(body, prefix) == {f \in DeclaredFields(body) : HasPrefix(f, prefix)}

\* the text after a prefix of n characters
After(f, n) == SubSeq(f, n + 1, Len(f))

PropertyNames(c) == {c.properties[i][1] : i \in 1..Len(c.properties)}
MethodNames(c) == {c.methods[i].method_name : i \in 1..Len(c.methods)}

\* C2 as stated: in the model of a builder-marked class no two synthesized
\* properties and no two synthesized with_ methods have the same name.
BuilderNamesUnique ==
    IsBuilderVisited
        => /\ \A i, j \in 1..Len(LastClass.properties) :
                LastClass.properties[i][1] = LastClass.properties[j][1] => i = j
           /\ \A i, j \in 1..Len(LastClass.methods) :
                LastClass.methods[i].method_name = LastClass.methods[j].method_name
                    => i = j

\* C2 amended: each distinct _param_ field contributes one property and one
\* with_ method that returns the full class name, each distinct _prop_
\* field one property and no method; a field _param_foo or _prop_foo whose
\* name does not end in _u8 gives the names foo and with_foo.  Two fields
\* may give the same name.
BuilderOnePerField ==
    IsBuilderVisited
        => LET c == LastClass
               params == FieldsWith(node.body, "_param_")
               props == FieldsWith(node.body, "_prop_")
           IN /\ Len(c.properties) = Cardinality(params) + Cardinality(props)
              /\ Len(c.methods) = Cardinality(params)
              /\ \A i \in 1..Len(c.methods) :
                    /\ c.methods[i].return_type = c.full_class_name
                    /\ Len(c.methods[i].args) = 1
                    /\ c.methods[i].method_name = "with_" \o c.methods[i].args[1][1]
                    /\ c.methods[i].args[1][1] \in PropertyNames(c)
              /\ \A f \in params :
                    ~HasSuffix(f, "_u8")
                        => /\ After(f, 7) \in PropertyNames(c)
                           /\ ("with_" \o After(f, 7)) \in MethodNames(c)
              /\ \A f \in props : After(f, 6) \in PropertyNames(c)
              /\ params = {} => c.methods = <<>>

\* two fields of one builder class gave the same property and method name
BuilderOnePerFieldWitness ==
    /\ IsBuilderVisited
    /\ Len(LastClass.methods) = 2
    /\ LastClass.methods[1].method_name = LastClass.methods[2].method_name
    /\ LastClass.properties[1][1] = LastClass.properties[2][1]

\* the name the claim gives the member synthesized from a _param_ field:
\* the text after the prefix, less a trailing _u8 of that text
StrippedName(f) ==
    IF HasSuffix(After(f, 7), "_u8")
    THEN SubSeq(After(f, 7), 1, Len(After(f, 7)) - 3)
    ELSE After(f, 7)

\* C8: a field _param_<X>_u8 gives the names X and with_X, any other
\* _param_<X> field gives X and with_X unchanged, the removed suffix never
\* reaches into the prefix, so a non-empty X never gives an empty name; a
\* _prop_ field keeps its whole suffix.
SuffixStripping ==
    IsBuilderVisited
        => LET c == LastClass
               params == FieldsWith(node.body, "_param_")
               props == FieldsWith(node.body, "_prop_")
           IN /\ PropertyNames(c) =
                    {StrippedName(f) : f \in params} \cup {After(f, 6) : f \in props}
              /\ MethodNames(c) = {"with_" \o StrippedName(f) : f \in params}
              /\ \A f \in params :
                    After(f, 7) # "" /\ ~HasSuffix(After(f, 7), "_u8")
                        => After(f, 7) \in PropertyNames(c)

Contains(s, t) == \E i \in 1..(Len(s) - Len(t) + 1) : SubSeq(s, i, i + Len(t) - 1) = t

\* the round trip of C3: a builder class whose only base is Generic[G] and
\* whose only body item is the field _param_X: T was visited and rendered
IsRoundTrip ==
    /\ IsBuilderVisited
    /\ Len(class_defs) = 1
    /\ Len(result) > 0
    /\ Len(node.bases) = 1
    /\ node.bases[1].kind = "Subscript"
    /\ node.bases[1].value = Name("Generic")
    /\ Len(node.body) = 1
    /\ FieldsWith(node.body, "_param_") # {}

RoundTripN == node.name
RoundTripG == _get_type_annotation(node.bases[1].slice)
RoundTripX == After(node.body[1].target.id, 7)
RoundTripT == _get_type_annotation(node.body[1].annotation)
RoundTripNG == RoundTripN \o "[" \o RoundTripG \o "]"

\* C3 as stated: the text has a class header naming N[G], the property
\* rendered as X: T and the method rendered as with_X(self, X: T) -> N[G].
RoundTripAsStated ==
    IsRoundTrip
        => /\ ~LastResult.raised
           /\ \E k \in 1..Len(LastResult.text) :
                /\ SubSeq(LastResult.text, k, k) = "\n"
                /\ Contains(SubSeq(LastResult.text, 1, k), RoundTripNG)
                /\ \A i \in 1..(k - 1) : SubSeq(LastResult.text, i, i) # "\n"
           /\ Contains(LastResult.text, RoundTripX \o ": " \o RoundTripT)
           /\ Contains(LastResult.text,
                       "with_" \o RoundTripX \o "(self, " \o RoundTripX \o ": "
                           \o RoundTripT \o ") -> " \o RoundTripNG)

\* the type the with_ method accepts for a field of type T
AcceptedType(T) ==
    IF T \in {"EmitIntensity", "Phase"} THEN "int | " \o T ELSE T

\* C3 amended: the text is the header class N(Generic[G]): with the bare
\* name, then the method def with_P(self: N[G], P: T') -> N[G]: ..., then
\* the marker line @property and def P(self: N[G]) -> T: ..., where T' is T
\* or int | T for EmitIntensity and Phase, and P is X when the field name
\* does not end in _u8.
RoundTripRendered ==
    IsRoundTrip
        => /\ ~LastResult.raised
           /\ \E P \in PropertyNames(LastClass) :
                /\ HasSuffix(node.body[1].target.id, "_u8") \/ P = RoundTripX
                /\ LastResult.text =
                      "class " \o RoundTripN \o "(Generic[" \o RoundTripG \o "]):\n"
                      \o "    def with_" \o P \o "(self: " \o RoundTripNG \o ", "
                      \o P \o ": " \o AcceptedType(RoundTripT) \o ") -> "
                      \o RoundTripNG \o ": ...\n"
                      \o "    @property\n"
                      \o "    def " \o P \o "(self: " \o RoundTripNG \o ") -> "
                      \o RoundTripT \o ": ...\n"

\* a generic builder class with the single field _param_foo was rendered
RoundTripRenderedWitness ==
    /\ IsRoundTrip
    /\ RoundTripX = "foo"
    /\ RoundTripG = "list[T]"
    /\ RoundTripT = "EmitIntensity"
    /\ ~LastResult.raised

(***************************************************************************)
(* Properties of the wrapper rules (specification SpecMarker).             *)
(***************************************************************************)
\* how many entries of a list satisfy a test
Count(xs, Test(_)) == Cardinality({i \in 1..Len(xs) : Test(xs[i])})

\* 1 when the condition holds, else 0
Times(condition) == IF condition THEN 1 ELSE 0

\* the wrapper methods of one name in a class model, and those among them
\* with the return type wrapper[full name]
WrapperMethods(c, method_name) ==
    Count(c.methods, LAMBDA m : m.method_name = method_name)

WrapperMethodsTyped(c, method_name, wrapper) ==
    Count(c.methods, LAMBDA m : /\ m.method_name = method_name
                                /\ m.return_type = wrapper \o "[" \o c.full_class_name \o "]")

\* C4: a visit appends with_cache and the Cache import for gain unless the
\* class is named Cache; for modulation with_cache unless Cache, with_fir
\* unless Fir, with_radiation_pressure unless RadiationPressure; for
\* datagram with_timeout unless DatagramWithTimeout and
\* with_parallel_threshold unless DatagramWithParallelThreshold; each
\* appended method returns wrapper[full class name] and each wrapper import
\* is appended exactly as often as its method.
SelfExclusion ==
    [][IsClassVisit
        => LET n == node'
               c == class_defs'[Len(class_defs')]
               ms == MarkersOf(n)
               added == SubSeq(imports', Len(imports) + 1, Len(imports'))
               Imported(line) == Count(added, LAMBDA x : x = line)
               gainCache == Times("gain" \in ms /\ n.name # "Cache")
               modCache == Times("modulation" \in ms /\ n.name # "Cache")
               fir == Times("modulation" \in ms /\ n.name # "Fir")
               pressure == Times("modulation" \in ms /\ n.name # "RadiationPressure")
               timeout == Times("datagram" \in ms /\ n.name # "DatagramWithTimeout")
               threshold == Times("datagram" \in ms
                                    /\ n.name # "DatagramWithParallelThreshold")
           IN /\ WrapperMethods(c, "with_cache") = gainCache + modCache
              /\ WrapperMethodsTyped(c, "with_cache", "Cache") = gainCache + modCache
              /\ Imported("from pyautd3.gain.cache import Cache") = gainCache
              /\ Imported("from pyautd3.modulation.cache import Cache") = modCache
              /\ WrapperMethods(c, "with_fir") = fir
              /\ WrapperMethodsTyped(c, "with_fir", "Fir") = fir
              /\ Imported("from pyautd3.modulation.fir import Fir") = fir
              /\ Imported("from collections.abc import Iterable") = fir
              /\ WrapperMethods(c, "with_radiation_pressure") = pressure
              /\ WrapperMethodsTyped(c, "with_radiation_pressure", "RadiationPressure")
                    = pressure
              /\ Imported("from pyautd3.modulation.radiation_pressure import RadiationPressure")
                    = pressure
              /\ WrapperMethods(c, "with_timeout") = timeout
              /\ WrapperMethodsTyped(c, "with_timeout", "DatagramWithTimeout") = timeout
              /\ Imported("from pyautd3.utils import Duration") = timeout
              /\ Imported("from pyautd3.driver.datagram.with_timeout import DatagramWithTimeout")
                    = timeout
              /\ WrapperMethods(c, "with_parallel_threshold") = threshold
              /\ WrapperMethodsTyped(c, "with_parallel_threshold",
                                     "DatagramWithParallelThreshold") = threshold
              /\ Imported("from pyautd3.driver.datagram.with_parallel_threshold import DatagramWithParallelThreshold")
                    = threshold
      ]_vars

\* a generic class named Cache with the gain and modulation markers got
\* with_fir and with_radiation_pressure for Cache[T], and no with_cache
SelfExclusionWitness ==
    /\ node.kind = "ClassDef"
    /\ node.name = "Cache"
    /\ {"gain", "modulation"} \subseteq MarkersOf(node)
    /\ LastClass.full_class_name = "Cache[T]"
    /\ WrapperMethods(LastClass, "with_cache") = 0
    /\ WrapperMethodsTyped(LastClass, "with_fir", "Fir") = 1
    /\ WrapperMethodsTyped(LastClass, "with_radiation_pressure", "RadiationPressure") = 1
    /\ Len(imports) >= 3

(***************************************************************************)
(* Properties of methods and their rendering (specification SpecMethod).   *)
(***************************************************************************)
\* the class visited last has one function definition as its body
IsMethodVisited ==
    /\ node.kind = "ClassDef"
    /\ Len(node.body) = 1
    /\ IsFunction(node.body[1])

DecoratorNames(f) ==
    {f.decorator_list[i].id :
        i \in {j \in 1..Len(f.decorator_list) : f.decorator_list[j].kind = "Name"}}

\* a synchronous function without property, staticmethod or classmethod
IsPlainMethodVisited ==
    /\ IsMethodVisited
    /\ node.body[1].kind = "FunctionDef"
    /\ DecoratorNames(node.body[1]) \cap {"property", "staticmethod", "classmethod"} = {}

IsAsyncMethodVisited == IsMethodVisited /\ node.body[1].kind = "AsyncFunctionDef"

\* the method model built from the function
BuiltMethod ==
    IF IsAsyncMethodVisited THEN LastClass.async_methods[1] ELSE LastClass.methods[1]

\* the text of one rendered parameter
Rendered(pair, suffix) == pair[1] \o ": " \o pair[2] \o suffix

\* C5: the defaults collected for an async or instance method are no more
\* than its keyword parameters, generate_pyi renders it without failing,
\* and of n keyword parameters with k defaults the first n - k render
\* without default and the last k carry the defaults in order (a default
\* equal to the placeholder renders nothing).
DefaultAlignment ==
    (IsPlainMethodVisited \/ IsAsyncMethodVisited)
        => LET m == BuiltMethod
               n == Len(m.args)
               k == Len(m.defaults)
               Suffix(i) ==
                   IF i <= n - k \/ m.defaults[i - (n - k)] = PyStr("None") THEN ""
                   ELSE " = " \o str(m.defaults[i - (n - k)])
           IN /\ k <= n
              /\ Len(result) > 0
                    => /\ ~LastResult.raised
                       /\ Contains(LastResult.text,
                                   ", " \o join(", ", [i \in 1..n |->
                                                          Rendered(m.args[i], Suffix(i))])
                                       \o ") -> ")

ArgNames(args) == [i \in 1..Len(args) |-> args[i].arg]
PairNames(pairs) == [i \in 1..Len(pairs) |-> pairs[i][1]]

\* C10: a synchronous method without property, staticmethod or classmethod
\* marker loses its first parameter only: with a positional-only group the
\* model keeps the positional-only parameters after self in posonlyargs and
\* every ordinary parameter in args; without one, posonlyargs is empty and
\* args holds every parameter after self.
OnlySelfDropped ==
    (IsPlainMethodVisited /\ Len(node.body[1].posonlyargs) + Len(node.body[1].args) > 0)
        => LET f == node.body[1]
               m == LastClass.methods[1]
           IN IF Len(f.posonlyargs) > 0
              THEN /\ PairNames(m.posonlyargs)
                        = SubSeq(ArgNames(f.posonlyargs), 2, Len(f.posonlyargs))
                   /\ PairNames(m.args) = ArgNames(f.args)
              ELSE /\ m.posonlyargs = <<>>
                   /\ PairNames(m.args) = SubSeq(ArgNames(f.args), 2, Len(f.args))

\* C7: a call of generate_pyi leaves class_defs, with every defaults list,
\* imports and should_generate as they were, and a call that follows
\* another call has the same outcome, the same text.
RenderIdempotent ==
    [][IsRender
        => /\ class_defs' = class_defs
           /\ imports' = imports
           /\ should_generate' = should_generate
           /\ Len(result) > 0 => result'[Len(result')] = LastResult
      ]_vars

\* a method with three parameters and one default was rendered twice
RenderIdempotentWitness ==
    /\ IsPlainMethodVisited
    /\ Len(result) = 2
    /\ ~result[1].raised
    /\ result[1].text # ""
    /\ result[2] = result[1]
    /\ Len(BuiltMethod.args) = 3
    /\ Len(BuiltMethod.defaults) = 1

(***************************************************************************)
(* Properties of the type translation (specification SpecType).            *)
(***************************************************************************)
\* the class visited last has one annotated field as its body
IsTypeVisited ==
    /\ node.kind = "ClassDef"
    /\ Len(node.body) = 1
    /\ node.body[1].kind = "AnnAssign"

\* the annotation handed to _get_type_annotation and the text it returned
VisitedAnnotation == node.body[1].annotation
TranslatedText == LastClass.attributes[1][2]

\* a node shape the grammar does not cover
OutsideGrammar(t) ==
    \/ t.kind \notin {"Name", "Constant", "Subscript", "Tuple", "List", "BinOp",
                      "Attribute", "None"}
    \/ t.kind = "BinOp" /\ t.op # "BitOr"

\* a name, or a name subscripted by a name, and its text
IsSimpleType(t) ==
    \/ t.kind = "Name"
    \/ t.kind = "Subscript" /\ t.value.kind = "Name" /\ t.slice.kind = "Name"

SimpleText(t) ==
    IF t.kind = "Name" THEN t.id ELSE t.value.id \o "[" \o t.slice.id \o "]"

IsUnion(t) == t.kind = "BinOp" /\ t.op = "BitOr"

\* a | b | c, parsed as (a | b) | c, over simple types
IsChainedUnion(t) ==
    /\ IsUnion(t)
    /\ IsUnion(t.left)
    /\ IsSimpleType(t.left.left) /\ IsSimpleType(t.left.right) /\ IsSimpleType(t.right)

\* C9: for every annotation node the translation returns one text: the
\* empty text for a node shape outside the grammar, None for a missing
\* annotation, and for a chained union a | b | c the operands from left to
\* right joined by " | ", a subscript in it as base[argument].
TranslationTotal ==
    IsTypeVisited
        => LET t == VisitedAnnotation
           IN /\ Len(LastClass.attributes) = 1
              /\ TranslatedText \in STRING
              /\ Len(TranslatedText) >= 0
              /\ OutsideGrammar(t) => TranslatedText = ""
              /\ t = NoNode => TranslatedText = "None"
              /\ IsSimpleType(t) => TranslatedText = SimpleText(t)
              /\ IsChainedUnion(t)
                    => TranslatedText = SimpleText(t.left.left) \o " | "
                                            \o SimpleText(t.left.right) \o " | "
                                            \o SimpleText(t.right)

\* the union a | c[d] | b was translated
TranslationTotalWitness ==
    /\ IsTypeVisited
    /\ IsChainedUnion(VisitedAnnotation)
    /\ TranslatedText = "a | c[d] | b"

(***************************************************************************)
(* Properties of the walk (specification SpecModule).                      *)
(***************************************************************************)
\* the names of the classes, and the import statements, that are direct
\* children of a module
TopLevelClasses(tree) ==
    SelectSeq(tree.body, LAMBDA stmt : stmt.kind = "ClassDef")

TopLevelImports(tree) ==
    SelectSeq(tree.body, LAMBDA stmt : stmt.kind \in {"Import", "ImportFrom"})

\* the entries of self.imports that no marker rule wrote
IsRuleImport(line) ==
    HasPrefix(line, "from pyautd3.") \/ line = "from collections.abc import Iterable"

StatementImports == SelectSeq(imports, LAMBDA line : ~IsRuleImport(line))

RECURSIVE LinesOfImports(_)
LinesOfImports(stmts) ==
    IF Len(stmts) = 0 THEN <<>>
    ELSE (IF Head(stmts).kind = "Import"
          THEN ImportNames(Head(stmts)) ELSE ImportFromNames(Head(stmts)))
         \o LinesOfImports(Tail(stmts))

\* C11: after the walk of a module tree, class_defs holds one entry per
\* class definition that is a direct child of the module, in order, and none
\* for a class nested in another statement, and the import statements in
\* imports are those that are direct children of the module.
TopLevelOnly ==
    node.kind = "Module" =>
        /\ [i \in 1..Len(class_defs) |-> class_defs[i].class_name]
              = [i \in 1..Len(TopLevelClasses(node)) |-> TopLevelClasses(node)[i].name]
        /\ StatementImports = LinesOfImports(TopLevelImports(node))

(***************************************************************************)
(* Properties of the order of classes and members (specification          *)
(* SpecOrder).                                                             *)
(***************************************************************************)
\* a line the text is expected to hold: how it begins, or all of it
Begins(text) == [starts |-> text, whole |-> FALSE]
Whole(text) == [starts |-> text, whole |-> TRUE]

\* the lines that declare the members of one class model, group by group
DeclarationsOf(c) ==
    <<Begins("class " \o c.class_name \o "(")>>
    \o [i \in 1..Len(c.attributes) |-> Begins("    " \o c.attributes[i][1] \o ": ")]
    \o [i \in 1..Len(c.async_methods) |->
           Begins("    async def " \o c.async_methods[i].method_name \o "(")]
    \o [i \in 1..Len(c.methods) |-> Begins("    def " \o c.methods[i].method_name \o "(")]
    \o Flatten([i \in 1..Len(c.staticmethods) |->
           <<Whole("    @staticmethod"),
             Begins("    def " \o c.staticmethods[i].method_name \o "(")>>])
    \o Flatten([i \in 1..Len(c.classmethods) |->
           <<Whole("    @classmethod"),
             Begins("    def " \o c.classmethods[i].method_name \o "(cls, ")>>])
    \o Flatten([i \in 1..Len(c.properties) |->
           <<Whole("    @property"), Begins("    def " \o c.properties[i][1] \o "(")>>])
    \o <<Whole("")>>

Declarations == Flatten([i \in 1..Len(class_defs) |-> DeclarationsOf(class_defs[i])])

\* the positions of the line breaks of a text
Breaks(text) == {i \in 1..Len(text) : SubSeq(text, i, i) = "\n"}

\* the line that follows position p, where breaks are the positions of the
\* line breaks of the text, is as expected
LineIs(text, breaks, p, expected) ==
    LET later == {q \in breaks : q > p}
        last == IF later = {} THEN Len(text)
                ELSE (CHOOSE q \in later : \A r \in later : q <= r) - 1
    IN /\ p + Len(expected.starts) <= last
       /\ SubSeq(text, p + 1, p + Len(expected.starts)) = expected.starts
       /\ expected.whole => p + Len(expected.starts) = last

\* the text holds the expected lines and no other, in their order; no line
\* at all is the empty text
HoldsInOrder(text, expected) ==
    LET breaks == Breaks(text)
    IN IF Len(expected) = 0 THEN text = ""
       ELSE /\ Cardinality(breaks) + 1 = Len(expected)
            /\ \A p \in breaks \cup {0} :
                  LineIs(text, breaks, p,
                         expected[1 + Cardinality({q \in breaks : q <= p})])

RenderedInOrder ==
    (Len(result) > 0 /\ ~LastResult.raised) => HoldsInOrder(LastResult.text, Declarations)

\* the functions of a body that are regular methods
IsDeclaredMethod(item) ==
    /\ item.kind = "FunctionDef"
    /\ DecoratorNames(item) \cap {"property", "staticmethod", "classmethod"} = {}

DeclaredMethodNames(body) ==
    LET declared == SelectSeq(body, IsDeclaredMethod)
    IN [i \in 1..Len(declared) |-> declared[i].name]

\* a step that visits a class definition
IsVisitOfClass == result' = <<>> /\ node'.kind = "ClassDef"

AppendedInVisitOrder ==
    /\ Len(class_defs') >= Len(class_defs)
    /\ SubSeq(class_defs', 1, Len(class_defs)) = class_defs
    /\ IsVisitOfClass =>
          /\ Len(class_defs') = Len(class_defs) + 1
          /\ LET c == class_defs'[Len(class_defs')]
                 declared == DeclaredMethodNames(node'.body)
             IN /\ c.class_name = node'.name
                /\ Len(c.methods) >= Len(declared)
                /\ [i \in 1..Len(declared) |-> c.methods[i].method_name] = declared
                /\ \A i \in (Len(declared) + 1)..Len(c.methods) :
                      HasPrefix(c.methods[i].method_name, "with_")
    /\ ~IsVisitOfClass => class_defs' = class_defs

\* C12: every visit of a class appends exactly one entry to class_defs and
\* leaves the earlier entries as they were, same-named classes included; the
\* regular methods of an entry are the declared ones followed by the
\* synthesized ones; the text generate_pyi returns holds one block per entry
\* in that order, and in each block the attributes, the async methods, the
\* regular methods, the static methods, the class methods and the
\* properties, each group in the order of its list.
Ordering == [][AppendedInVisitOrder]_vars /\ []RenderedInOrder

\* two classes of the name M were visited, the second one with members of
\* every kind, declared and synthesized methods among them, and both entries
\* were rendered
OrderingWitness ==
    /\ Len(class_defs) = 2
    /\ class_defs[1].class_name = "M" /\ class_defs[2].class_name = "M"
    /\ class_defs[1] # class_defs[2]
    /\ Len(class_defs[2].attributes) > 0 /\ Len(class_defs[2].async_methods) > 0
    /\ Len(class_defs[2].methods) > 2 /\ Len(class_defs[2].staticmethods) > 0
    /\ Len(class_defs[2].classmethods) > 0 /\ Len(class_defs[2].properties) > 1
    /\ Len(result) > 0
    /\ ~LastResult.raised
    /\ LastResult.text # ""

====
